---------------------------- MODULE Spec2Model ----------------------------
(***************************************************************************)
(* Model of dq::disruptor_queue<T, CAPACITY> (src/src/disruptor_queue.hpp, *)
(* the revision at lines 255-554): a bounded multi-producer,               *)
(* multi-consumer broadcast ring buffer.  Every shared-memory access of    *)
(* the hot path (fetch_add on _next_sequence, each acquire load of a       *)
(* reader's _consumer_sequence, the payload store, the stamp store, the    *)
(* stamp load, the payload load, the _consumer_sequence store) is one      *)
(* step of the thread that performs it.                                    *)
(***************************************************************************)
EXTENDS Integers, Sequences, FiniteSets

\* ------------------------------------------------------------------------
\* Bounds of the model
\* ------------------------------------------------------------------------

\* Most readers / writers the setup phase creates.
MaxReaders == 2
MaxWriters == 2
\* Cap on _next_sequence: no write call starts once MaxSeq sequences are
\* claimed, and a reader performs at most MaxSeq read calls.
MaxSeq == 3

\* ------------------------------------------------------------------------
\* Program constants
\* ------------------------------------------------------------------------

\* The values of the template parameter CAPACITY the model instantiates the
\* queue with (a positive power of two, static_assert): the hand-off queue
\* of one slot and a ring of two.
Capacities == {1, 2}

\* INITIAL_SEQUENCE = -1
INITIAL_SEQUENCE == 0 - 1

\* std::numeric_limits<sequence_type>::max().  TLC's integers are 32 bits
\* wide, so the largest of them stands for the largest int64_t; it is only
\* ever compared with sequences, all of which are far below it.
SequenceMax == 2147483647

\* A default-constructed payload (std::array<value_type, CAPACITY> _buffer{}).
DefaultValue == 0

\* The payloads of the write calls are 10, 11, 12, ... in the order the
\* calls claim their sequences (writer.write(10); writer.write(11); ...),
\* so no two write calls carry the same payload and none carries the
\* default one.  The queue never inspects a payload.
FirstValue == 10

ReaderIds == 1..MaxReaders
WriterIds == 1..MaxWriters

VARIABLES
  capacity,             \* the template argument CAPACITY of this queue
  workload,             \* which payloads the callers hand to write()
  setup,                \* TRUE while the caller is still creating endpoints
  nReaders,             \* size of _readers
  nWriters,             \* size of _writers
  buffer,               \* _buffer
  slot_sequences,       \* _slot_sequences (the stamps)
  next_sequence,        \* _next_sequence
  consumer_sequence,    \* reader::_consumer_sequence, per reader
  cached_min,           \* writer::_cached_min_consumer_sequence, per writer
  wpc,                  \* where each writer's thread is inside write()
  claimed_sequence,     \* write(): local claimed_sequence
  value,                \* write(): the argument value
  scan_index,           \* get_min_consumer_sequence(): position in _readers
  min_sequence,         \* get_min_consumer_sequence(): local min_sequence
  rpc,                  \* where each reader's thread is inside read()
  next_read_sequence,   \* read(): local next_read_sequence
  read_value,           \* read(): local value / the caller's output
  claim_log,            \* history: payload handed to the write that claimed s
  completed,            \* history: sequences whose write call has returned
  received,             \* history: payloads each reader's read calls returned
  consumed,             \* history: sequence each returned read call consumed
  bit,                  \* bit utilities: the call looked at (function,
                        \* template argument, 64-bit argument, whether it
                        \* has returned, 64-bit result); no call in a
                        \* queue run
  lq                    \* the earlier queue disruptor_queue<T, SIZE>, its
                        \* endpoints and its caller; nobody calls it in a
                        \* run of the present queue

vars == <<capacity, workload, setup, nReaders, nWriters, buffer,
          slot_sequences, next_sequence, consumer_sequence, cached_min, wpc, claimed_sequence, value,
          scan_index, min_sequence, rpc, next_read_sequence, read_value,
          claim_log, completed, received, consumed,
          bit, lq>>

queueVars == <<buffer, slot_sequences, next_sequence>>
writerVars == <<cached_min, wpc, claimed_sequence, value, scan_index,
                min_sequence, claim_log, completed>>
readerVars == <<consumer_sequence, rpc, next_read_sequence, read_value,
                received, consumed>>
\* What no call on the queue changes.
fixedVars == <<capacity, workload, bit, lq>>

setupVars == <<fixedVars, setup, nReaders, nWriters>>

\* disruptor_queue::capacity()
CAPACITY == capacity

Slots == 0..(CAPACITY - 1)

\* A slip that keeps the larger of the two.
Max(a, b) == IF a <= b THEN b ELSE a

\* std::min
Min(a, b) == IF a <= b THEN a ELSE b

\* ------------------------------------------------------------------------
\* Bit utilities
\* ------------------------------------------------------------------------

RECURSIVE BitAnd(_, _)
BitAnd(a, b) ==
  IF a = 0 \/ b = 0 THEN 0
  ELSE (a % 2) * (b % 2) + 2 * BitAnd(a \div 2, b \div 2)

\* internal::mod_power_of_two<DIVISOR>(dividend): dividend & (DIVISOR - 1)
mod_power_of_two(DIVISOR, dividend) == BitAnd(dividend, DIVISOR - 1)

\* A slip that maps sequence s to the slot of s + 1.
index_from_sequence_shifted(sequence) ==
  mod_power_of_two(CAPACITY, sequence + 1)

\* disruptor_queue::index_from_sequence
index_from_sequence(sequence) == mod_power_of_two(CAPACITY, sequence)

\* A 64-bit value (std::size_t, int64_t) is kept as four limbs of 16 bits,
\* the least significant first, because the numbers of the model are
\* narrower than 64 bits; an int is a number of the model.
LimbBase == 2^16

Limbs == 1..4

ZeroWord == [i \in Limbs |-> 0]

\* std::numeric_limits<std::size_t>::max()
MaxWord == [i \in Limbs |-> LimbBase - 1]

\* The 64-bit value of a number 0 <= n < 2^31.
WordOfNat(n) == [i \in Limbs |-> IF i = 1 THEN n % LimbBase
                                 ELSE IF i = 2 THEN n \div LimbBase
                                 ELSE 0]

\* The 64-bit value 2^k, 0 <= k < 64.
PowerWord(k) == [i \in Limbs |-> IF i = (k \div 16) + 1 THEN 2^(k % 16)
                                 ELSE 0]

\* a < b as unsigned 64-bit values.
WordLess(a, b) ==
  \E i \in Limbs :
    /\ a[i] < b[i]
    /\ \A j \in Limbs : j > i => a[j] = b[j]

\* A non-negative 64-bit value that an int holds unchanged.
FitsInt(word) == word[4] = 0 /\ word[3] = 0 /\ word[2] < LimbBase \div 2

\* The number a value that fits an int stands for.
NatOfWord(word) == word[2] * LimbBase + word[1]

\* A slip that converts a 64-bit value to int by clamping it.
int_of_word_saturating(word) ==
  IF FitsInt(word) THEN NatOfWord(word) ELSE SequenceMax

\* The conversion of a 64-bit value to the int parameter of
\* mod_power_of_two: the low 32 bits, read as two's complement.
int_of_word(word) ==
  (IF word[2] >= LimbBase \div 2 THEN word[2] - LimbBase ELSE word[2])
    * LimbBase + word[1]

\* The conversion of an int to std::size_t: sign extension to 64 bits.
word_of_int(i) ==
  IF i >= 0 THEN WordOfNat(i)
  ELSE [k \in Limbs |-> IF k = 1 THEN i % LimbBase
                        ELSE IF k = 2 THEN (i \div LimbBase) % LimbBase
                        ELSE LimbBase - 1]

\* disruptor_queue<T, D>::index_from_sequence for a sequence of full width:
\* the int64_t argument is converted to int, the int result to size_type.
index_from_sequence_wide(D, sequence) ==
  word_of_int(mod_power_of_two(D, int_of_word(sequence)))

\* ------------------------------------------------------------------------
\* Construction and setup
\* ------------------------------------------------------------------------

\* A slip that starts the cache one above INITIAL_SEQUENCE (the
\* _min_consumer_sequence{0} of the earlier queue).
initial_cached_min_zero == INITIAL_SEQUENCE + 1

\* writer: sequence_type _cached_min_consumer_sequence{INITIAL_SEQUENCE}
initial_cached_min == INITIAL_SEQUENCE

\* disruptor_queue::disruptor_queue(): every stamp INITIAL_SEQUENCE,
\* _next_sequence 0, default payloads, no endpoints.
QueueInit ==
  /\ capacity \in Capacities
  /\ setup = TRUE
  /\ nReaders = 0
  /\ nWriters = 0
  /\ buffer = [i \in Slots |-> DefaultValue]
  /\ slot_sequences = [i \in Slots |-> INITIAL_SEQUENCE]
  /\ next_sequence = 0
  /\ consumer_sequence = [r \in ReaderIds |-> INITIAL_SEQUENCE]
  /\ cached_min = [w \in WriterIds |-> initial_cached_min]
  /\ wpc = [w \in WriterIds |-> "idle"]
  /\ claimed_sequence = [w \in WriterIds |-> INITIAL_SEQUENCE]
  /\ value = [w \in WriterIds |-> DefaultValue]
  /\ scan_index = [w \in WriterIds |-> 0]
  /\ min_sequence = [w \in WriterIds |-> SequenceMax]
  /\ rpc = [r \in ReaderIds |-> "idle"]
  /\ next_read_sequence = [r \in ReaderIds |-> INITIAL_SEQUENCE]
  /\ read_value = [r \in ReaderIds |-> DefaultValue]
  /\ claim_log = <<>>
  /\ completed = {}
  /\ received = [r \in ReaderIds |-> <<>>]
  /\ consumed = [r \in ReaderIds |-> <<>>]

\* The endpoints of the earlier queue: up to two writers and its reader.
LqWriterIds == {1, 2}

\* The earlier queue after its construction and the creation of its
\* endpoints: both sequences are 1, a writer's _min_consumer_sequence is 0,
\* no slot of _buffer has been written.  The fields are the data members
\* (buffer holds the slots written so far), the locals of write() and
\* read() with the place each thread is at (wpc, rpc), and the history:
\* the values handed to the write calls begun, the number of write calls
\* returned, the values the read calls returned.
LqConstructed(driver, size, writers, uninitialised) ==
  [driver |-> driver,
   size |-> size,
   nWriters |-> writers,
   buffer |-> << >>,
   producer_sequence |-> 1,
   available_sequence |-> 1,
   consumer_sequence |-> uninitialised,
   min_consumer_sequence |-> [w \in LqWriterIds |-> 0],
   wpc |-> [w \in LqWriterIds |-> "idle"],
   claimed_sequence |-> [w \in LqWriterIds |-> 0],
   value |-> [w \in LqWriterIds |-> 0],
   rpc |-> "idle",
   next_read_sequence |-> 0,
   read_value |-> 0,
   written |-> << >>,
   returned |-> 0,
   read |-> << >>]

\* No earlier queue is looked at.
NoLqCall == lq = LqConstructed("none", 1, 0, 0)

\* A call of a bit utility before it returns.
BitCall(fn, divisor, arg) ==
  [call |-> fn, divisor |-> divisor, arg |-> arg, returned |-> FALSE,
   result |-> ZeroWord]

\* No call of a bit utility is looked at.
NoBitCall == bit = BitCall("none", 1, ZeroWord)

\* The callers write the numbers FirstValue, FirstValue + 1, ...
Init ==
  /\ workload = "numbered"
  /\ QueueInit
  /\ NoBitCall
  /\ NoLqCall

\* disruptor_queue::create_reader(): appends a reader whose
\* _consumer_sequence is INITIAL_SEQUENCE.
create_reader ==
  /\ setup
  /\ nReaders < MaxReaders
  /\ nReaders' = nReaders + 1
  /\ UNCHANGED <<fixedVars, setup, nWriters, queueVars, writerVars,
                 readerVars>>

\* A slip that lets the creation of a writer take a sequence.
create_writer_claiming ==
  /\ setup
  /\ nWriters < MaxWriters
  /\ nWriters' = nWriters + 1
  /\ next_sequence' = next_sequence + 1
  /\ UNCHANGED <<fixedVars, setup, nReaders, buffer, slot_sequences,
                 writerVars, readerVars>>

\* disruptor_queue::create_writer(): appends a writer whose
\* _cached_min_consumer_sequence is INITIAL_SEQUENCE.
create_writer ==
  /\ setup
  /\ nWriters < MaxWriters
  /\ nWriters' = nWriters + 1
  /\ UNCHANGED <<fixedVars, setup, nReaders, queueVars, writerVars,
                 readerVars>>

\* The caller ends the setup phase ("Reader/Writer creation must be called
\* during setup ONLY"); the producer and consumer threads run from here on.
end_setup ==
  /\ setup
  /\ setup' = FALSE
  /\ UNCHANGED <<fixedVars, nReaders, nWriters, queueVars, writerVars,
                 readerVars>>

Readers == 1..nReaders
Writers == 1..nWriters

\* ------------------------------------------------------------------------
\* Writer
\* ------------------------------------------------------------------------

\* A slip that forgets to subtract the capacity.
wrap_point_no_capacity(claimed) == claimed

\* wait_for_no_wrap: wrap_point = claimed_sequence - CAPACITY
wrap_point(claimed) == claimed - CAPACITY

\* A slip that lets the writer run one slot too far.
no_wrap_off_by_one(wrap, cached) == wrap - 1 <= cached

\* wait_for_no_wrap: the test "wrap_point <= _cached_min_consumer_sequence"
\* (the while loop tests its negation).
no_wrap(wrap, cached) == wrap <= cached

\* The payloads of a tagged workload: writer w's item number i (from 0) is
\* the pair (w, i), kept as one integer that is never DefaultValue.
TagBase == MaxSeq + 1

Tag(w, i) == w * TagBase + i

writer_of(payload) == payload \div TagBase

item_of(payload) == payload % TagBase

\* The number of write calls writer w has made (its loop counter).
writes_of(w) ==
  Cardinality({k \in DOMAIN claim_log : writer_of(claim_log[k]) = w})

\* The argument of the caller's next write call: the next number, or the
\* writer's next tagged item.
write_argument(w) ==
  IF workload = "numbered"
  THEN FirstValue + Len(claim_log)
  ELSE Tag(w, writes_of(w))

\* write(value) / write_emplace(args...) up to the first access of another
\* thread's memory: claim_sequence()'s fetch_add, then wait_for_no_wrap's
\* early return; if the cache does not allow the write, the loop of
\* wait_for_no_wrap starts with its first call of
\* get_min_consumer_sequence().
claim_sequence(w) ==
  /\ ~setup
  /\ w \in Writers
  /\ wpc[w] = "idle"
  /\ next_sequence < MaxSeq
  /\ LET claimed == next_sequence
         payload == write_argument(w)
     IN /\ next_sequence' = next_sequence + 1
        /\ claimed_sequence' = [claimed_sequence EXCEPT ![w] = claimed]
        /\ value' = [value EXCEPT ![w] = payload]
        /\ claim_log' = Append(claim_log, payload)
        /\ IF no_wrap(wrap_point(claimed), cached_min[w])
           THEN /\ wpc' = [wpc EXCEPT ![w] = "store"]
                /\ UNCHANGED <<cached_min, scan_index>>
           ELSE /\ wpc' = [wpc EXCEPT ![w] = "scan"]
                /\ scan_index' = [scan_index EXCEPT ![w] = 1]
                /\ UNCHANGED cached_min
  /\ UNCHANGED <<buffer, slot_sequences, min_sequence, completed,
                 setupVars, readerVars>>

\* A slip that answers INITIAL_SEQUENCE for a queue without readers.
min_of_no_readers_initial == INITIAL_SEQUENCE

\* get_min_consumer_sequence(): if (_readers.empty()) return max
min_of_no_readers == SequenceMax

\* One iteration of the loop of get_min_consumer_sequence(): the acquire
\* load of one reader's _consumer_sequence, or the early return when
\* _readers is empty.  After the last reader the result is assigned to
\* _cached_min_consumer_sequence and the while loop of wait_for_no_wrap
\* tests it: the scan starts again or the wait returns.
get_min_consumer_sequence(w) ==
  /\ wpc[w] = "scan"
  /\ LET reader_seq == IF nReaders = 0 THEN min_of_no_readers
                       ELSE consumer_sequence[scan_index[w]]
         m == Min(min_sequence[w], reader_seq)
     IN IF scan_index[w] < nReaders
        THEN /\ scan_index' = [scan_index EXCEPT ![w] = @ + 1]
             /\ min_sequence' = [min_sequence EXCEPT ![w] = m]
             /\ UNCHANGED <<cached_min, wpc>>
        ELSE /\ cached_min' = [cached_min EXCEPT ![w] = m]
             /\ min_sequence' = [min_sequence EXCEPT ![w] = SequenceMax]
             /\ IF no_wrap(wrap_point(claimed_sequence[w]), m)
                THEN /\ wpc' = [wpc EXCEPT ![w] = "store"]
                     /\ scan_index' = [scan_index EXCEPT ![w] = 0]
                ELSE /\ scan_index' = [scan_index EXCEPT ![w] = 1]
                     /\ UNCHANGED wpc
  /\ UNCHANGED <<claimed_sequence, value, claim_log, completed,
                 queueVars, setupVars, readerVars>>

\* write(): _queue._buffer[write_index] = std::move(value)
store_payload(w) ==
  /\ wpc[w] = "store"
  /\ buffer' = [buffer EXCEPT
                  ![index_from_sequence(claimed_sequence[w])] = value[w]]
  /\ wpc' = [wpc EXCEPT ![w] = "commit"]
  /\ UNCHANGED <<slot_sequences, next_sequence, cached_min, claimed_sequence,
                 value, scan_index, min_sequence, claim_log, completed,
                 setupVars, readerVars>>

\* commit_sequence(): the release store of the stamp; write() returns and
\* its locals end.
commit_sequence(w) ==
  /\ wpc[w] = "commit"
  /\ slot_sequences' =
       [slot_sequences EXCEPT
          ![index_from_sequence(claimed_sequence[w])] = claimed_sequence[w]]
  /\ wpc' = [wpc EXCEPT ![w] = "idle"]
  /\ completed' = completed \cup {claimed_sequence[w]}
  /\ claimed_sequence' = [claimed_sequence EXCEPT ![w] = INITIAL_SEQUENCE]
  /\ value' = [value EXCEPT ![w] = DefaultValue]
  /\ UNCHANGED <<buffer, next_sequence, cached_min, scan_index, min_sequence,
                 claim_log, setupVars, readerVars>>

WriterStep(w) ==
  \/ claim_sequence(w)
  \/ get_min_consumer_sequence(w)
  \/ store_payload(w)
  \/ commit_sequence(w)

\* ------------------------------------------------------------------------
\* Reader
\* ------------------------------------------------------------------------

\* A slip that skips a sequence.
get_next_read_sequence_skip(consumer) == consumer + 2

\* reader::get_next_read_sequence(): _consumer_sequence + 1
get_next_read_sequence(consumer) == consumer + 1

\* A variant of read() that moves the payload out of the slot
\* (value = std::move(_queue._buffer[read_index])).
buffer_after_move(buf, read_index) ==
  [buf EXCEPT ![read_index] = DefaultValue]

\* read(): value_type value = _queue._buffer[read_index] copies; the slot
\* keeps its payload.
buffer_after_load(buf, read_index) == buf

\* read() / read(output) up to the end of wait_for_data():
\* get_next_read_sequence(), index_from_sequence() and the acquire load of
\* the stamp that ends the loop.  The loads that find another stamp change
\* nothing, so a reader that is not yet served stays here.
wait_for_data(r) ==
  /\ ~setup
  /\ r \in Readers
  /\ rpc[r] = "idle"
  /\ Len(received[r]) < MaxSeq
  /\ LET next == get_next_read_sequence(consumer_sequence[r])
     IN /\ slot_sequences[index_from_sequence(next)] = next
        /\ next_read_sequence' = [next_read_sequence EXCEPT ![r] = next]
  /\ rpc' = [rpc EXCEPT ![r] = "load"]
  /\ UNCHANGED <<consumer_sequence, read_value, received, consumed,
                 queueVars, setupVars, writerVars>>

\* read(): value = _queue._buffer[read_index]
load_payload(r) ==
  /\ rpc[r] = "load"
  /\ LET read_index == index_from_sequence(next_read_sequence[r])
     IN /\ read_value' = [read_value EXCEPT ![r] = buffer[read_index]]
        /\ buffer' = buffer_after_load(buffer, read_index)
  /\ rpc' = [rpc EXCEPT ![r] = "update"]
  /\ UNCHANGED <<consumer_sequence, next_read_sequence, received, consumed,
                 slot_sequences, next_sequence, setupVars, writerVars>>

\* update_consumer_sequence(): the release store; read() returns value and
\* its locals end.
update_consumer_sequence(r) ==
  /\ rpc[r] = "update"
  /\ consumer_sequence' =
       [consumer_sequence EXCEPT ![r] = next_read_sequence[r]]
  /\ received' = [received EXCEPT ![r] = Append(@, read_value[r])]
  /\ consumed' = [consumed EXCEPT ![r] = Append(@, next_read_sequence[r])]
  /\ next_read_sequence' = [next_read_sequence EXCEPT ![r] = INITIAL_SEQUENCE]
  /\ read_value' = [read_value EXCEPT ![r] = DefaultValue]
  /\ rpc' = [rpc EXCEPT ![r] = "idle"]
  /\ UNCHANGED <<queueVars, setupVars, writerVars>>

ReaderStep(r) ==
  \/ wait_for_data(r)
  \/ load_payload(r)
  \/ update_consumer_sequence(r)

\* ------------------------------------------------------------------------
\* Specifications
\* ------------------------------------------------------------------------

Next ==
  \/ create_reader
  \/ create_writer
  \/ end_setup
  \/ \E w \in WriterIds : WriterStep(w)
  \/ \E r \in ReaderIds : ReaderStep(r)

Spec == Init /\ [][Next]_vars

\* Every writer writes its own items (w, 0), (w, 1), ...
TaggedInit ==
  /\ workload = "tagged"
  /\ QueueInit
  /\ NoBitCall
  /\ NoLqCall

TaggedSpec == TaggedInit /\ [][Next]_vars


\* ------------------------------------------------------------------------
\* Derived state
\* ------------------------------------------------------------------------

\* The true minimum of the readers' _consumer_sequence at this instant
\* (only used where there is at least one reader).
MinConsumer ==
  CHOOSE m \in {consumer_sequence[r] : r \in Readers} :
    \A r \in Readers : m <= consumer_sequence[r]

\* The writer has returned from wait_for_no_wrap() and has not yet
\* returned from write().
PastWait(w) == wpc[w] \in {"store", "commit"}

\* The writer is anywhere between its fetch_add and the return of write().
InWrite(w) == wpc[w] # "idle"

\* ------------------------------------------------------------------------
\* C1  Ordering
\* ------------------------------------------------------------------------

\* C1: on every reader, the k-th read call that returned (k = 0, 1, ...)
\* returned exactly the payload handed to the write call that claimed
\* sequence k.
C1_Ordering ==
  \A r \in Readers :
    \A k \in 1..Len(received[r]) :
      /\ k <= Len(claim_log)
      /\ received[r][k] = claim_log[k]

\* With two writers, a reader has read past the first lap of the ring.
C1_Witness ==
  /\ nWriters = 2
  /\ \E r \in Readers : Len(received[r]) > CAPACITY

\* ------------------------------------------------------------------------
\* C2  Completeness
\* ------------------------------------------------------------------------

\* C2: a reader that has completed M reads has _consumer_sequence = M - 1
\* and its read calls consumed exactly the sequences 0..M-1, in that order,
\* each once.
C2_Completeness ==
  \A r \in Readers :
    /\ consumer_sequence[r] = Len(consumed[r]) - 1
    /\ \A k \in 1..Len(consumed[r]) : consumed[r][k] = k - 1

\* A reader has completed MaxSeq reads.
C2_Witness ==
  \E r \in Readers : Len(consumed[r]) = MaxSeq /\ consumer_sequence[r] = MaxSeq - 1

\* ------------------------------------------------------------------------
\* C3  Broadcast
\* ------------------------------------------------------------------------

\* C3: for any two readers, the first M payloads each received are the same
\* list, for every M both have completed.
C3_Broadcast ==
  \A a, b \in Readers :
    \A k \in 1..Min(Len(received[a]), Len(received[b])) :
      received[a][k] = received[b][k]

\* Two readers, one of which ran a full ring ahead of the other, and the
\* slower one has read something too.
C3_Witness ==
  /\ nReaders = 2
  /\ nWriters = 2
  /\ Len(received[1]) >= Len(received[2]) + CAPACITY
  /\ Len(received[2]) >= 1

\* ------------------------------------------------------------------------
\* C4  No overwrite of unread data
\* ------------------------------------------------------------------------

\* C4: with at least one reader, a writer that claimed s is at its payload
\* store (or past it) only while every reader's _consumer_sequence is
\* >= s - CAPACITY, and a write that claimed s has returned only if every
\* reader has consumed through s - CAPACITY (so the write that claimed
\* CAPACITY does not return before the first read completed).
C4_NoOverwrite ==
  nReaders >= 1 =>
    /\ \A w \in Writers :
         PastWait(w) =>
           \A r \in Readers :
             consumer_sequence[r] >= claimed_sequence[w] - CAPACITY
    /\ \A s \in completed :
         \A r \in Readers : consumer_sequence[r] >= s - CAPACITY

\* A writer stores the payload of a second-lap sequence.
C4_Witness ==
  /\ nReaders >= 1
  /\ \E w \in Writers : wpc[w] = "store" /\ claimed_sequence[w] >= CAPACITY

\* ------------------------------------------------------------------------
\* C5  Back-pressure bound
\* ------------------------------------------------------------------------

\* C5 as stated: for every writer between its fetch_add and the return of
\* write(), claimed_sequence - min consumer_sequence <= CAPACITY.
C5_AsStated ==
  nReaders >= 1 =>
    \A w \in Writers :
      InWrite(w) => claimed_sequence[w] - MinConsumer <= CAPACITY

\* C5 amended: for every writer between the return of wait_for_no_wrap()
\* and the return of write(), claimed_sequence - min consumer_sequence
\* <= CAPACITY.
C5_BackPressure ==
  nReaders >= 1 =>
    \A w \in Writers :
      PastWait(w) => claimed_sequence[w] - MinConsumer <= CAPACITY

\* A writer past the wait sits exactly at the bound.
C5_Witness ==
  /\ nReaders >= 1
  /\ \E w \in Writers :
       PastWait(w) /\ claimed_sequence[w] - MinConsumer = CAPACITY

\* ------------------------------------------------------------------------
\* C6  No-tear
\* ------------------------------------------------------------------------

\* C6: no writer is at its payload store to slot i while a reader is at its
\* payload load from slot i.
C6_NoTear ==
  \A w \in Writers : \A r \in Readers :
    ~ /\ wpc[w] = "store"
      /\ rpc[r] = "load"
      /\ index_from_sequence(claimed_sequence[w])
           = index_from_sequence(next_read_sequence[r])

\* A writer stores a second-lap payload while a reader loads a payload
\* (from the other slot).
C6_Witness ==
  \E w \in Writers : \E r \in Readers :
    /\ wpc[w] = "store"
    /\ claimed_sequence[w] >= CAPACITY
    /\ rpc[r] = "load"

\* ------------------------------------------------------------------------
\* C7  Writer/writer slot exclusion
\* ------------------------------------------------------------------------

\* C7: two distinct writers are never both past wait_for_no_wrap() and
\* before the return of their stamp store for sequences of the same slot.
C7_WriterSlotExclusion ==
  \A w1, w2 \in Writers :
    (w1 # w2 /\ PastWait(w1) /\ PastWait(w2)) =>
      index_from_sequence(claimed_sequence[w1])
        # index_from_sequence(claimed_sequence[w2])

\* ------------------------------------------------------------------------
\* C8  Index identity
\* ------------------------------------------------------------------------

\* C8: the stamp of slot i is INITIAL_SEQUENCE or a sequence s with
\* s mod CAPACITY = i.
C8_IndexIdentity ==
  \A i \in Slots :
    \/ slot_sequences[i] = INITIAL_SEQUENCE
    \/ slot_sequences[i] % CAPACITY = i

\* A slot carries the stamp of a later lap.
C8_Witness ==
  \E i \in Slots : slot_sequences[i] >= CAPACITY

\* ------------------------------------------------------------------------
\* Fair specifications
\* ------------------------------------------------------------------------

\* Producers and consumers are native threads, one per endpoint, each of
\* which keeps running (std::thread in BM_MultiProducerSingleConsumer): a
\* thread whose next step stays possible eventually takes it.
FairSpec ==
  /\ Spec
  /\ \A w \in WriterIds : WF_vars(WriterStep(w))
  /\ \A r \in ReaderIds : WF_vars(ReaderStep(r))

\* The reader exists but no thread ever drives it.
NextIdleReader ==
  \/ create_reader
  \/ create_writer
  \/ end_setup
  \/ \E w \in WriterIds : WriterStep(w)

IdleReaderSpec ==
  /\ Init
  /\ [][NextIdleReader]_vars
  /\ \A w \in WriterIds : WF_vars(WriterStep(w))

\* ------------------------------------------------------------------------
\* C9  Finite workloads terminate
\* ------------------------------------------------------------------------

\* The workload: the writers together perform MaxSeq write calls, every
\* reader performs MaxSeq read calls.
Running == ~setup /\ nReaders >= 1 /\ nWriters >= 1

WriterFinished(w) == wpc[w] = "idle" /\ next_sequence = MaxSeq

\* The writer spins in wait_for_no_wrap() and no refresh of its cache from
\* the readers' present sequences would end the loop.
WriterBlocked(w) ==
  /\ wpc[w] = "scan"
  /\ ~no_wrap(wrap_point(claimed_sequence[w]), MinConsumer)

ReaderFinished(r) == rpc[r] = "idle" /\ Len(received[r]) = MaxSeq

\* The reader spins in wait_for_data().
ReaderBlocked(r) ==
  /\ rpc[r] = "idle"
  /\ slot_sequences[index_from_sequence(get_next_read_sequence(consumer_sequence[r]))]
       # get_next_read_sequence(consumer_sequence[r])

Finished ==
  /\ \A w \in Writers : WriterFinished(w)
  /\ \A r \in Readers : ReaderFinished(r)
  /\ next_sequence = MaxSeq
  /\ completed = 0..(MaxSeq - 1)
  /\ \A r \in Readers : consumer_sequence[r] = MaxSeq - 1

CanProgress ==
  \/ \E w \in Writers : ~WriterFinished(w) /\ ~WriterBlocked(w)
  \/ \E r \in Readers : ~ReaderFinished(r) /\ ~ReaderBlocked(r)

\* C9: with at least one reader and one writer, every state of the run is
\* either the final one or has a thread that is not spinning without hope
\* (no deadlock), and the run reaches the final state, in which every write
\* and read call has returned, _next_sequence = W and every
\* _consumer_sequence = W - 1.
C9_Terminates ==
  /\ [](Running => (Finished \/ CanProgress))
  /\ (Running ~> Finished)

\* Two writers and two readers have finished the workload.
C9_Witness ==
  /\ nWriters = 2
  /\ nReaders = 2
  /\ Finished

\* ------------------------------------------------------------------------
\* C10  A reader that is never driven bounds the writers
\* ------------------------------------------------------------------------

\* C10: with one reader that is never driven, no write call that claimed a
\* sequence >= CAPACITY ever returns, and the write calls that claimed
\* 0..CAPACITY-1 all return.
C10_IdleReaderBounds ==
  /\ [](nReaders = 1 => \A s \in completed : s < CAPACITY)
  /\ ((~setup /\ nReaders = 1 /\ nWriters >= 1)
        ~> (completed = 0..(CAPACITY - 1)))

\* CAPACITY writes have returned and a writer spins in wait_for_no_wrap()
\* for a later sequence.
C10_Witness ==
  /\ nReaders = 1
  /\ nWriters = 2
  /\ consumer_sequence[1] = INITIAL_SEQUENCE
  /\ completed = 0..(CAPACITY - 1)
  /\ \E w \in Writers : wpc[w] = "scan" /\ claimed_sequence[w] >= CAPACITY

\* ------------------------------------------------------------------------
\* C11  A queue without readers never holds a writer back
\* ------------------------------------------------------------------------

\* C11: in a queue without readers get_min_consumer_sequence() returns the
\* largest 64-bit value, so a writer calls it at most once (with its cache
\* still at INITIAL_SEQUENCE), that one call ends the wait, and every write
\* call returns however many sequences have been claimed.
C11_NoReaders ==
  /\ [](nReaders = 0 =>
          \A w \in Writers :
            wpc[w] = "scan" =>
              /\ cached_min[w] = INITIAL_SEQUENCE
              /\ no_wrap(wrap_point(claimed_sequence[w]), min_of_no_readers))
  /\ ((~setup /\ nReaders = 0 /\ nWriters >= 1)
        ~> (/\ next_sequence = MaxSeq
            /\ completed = 0..(MaxSeq - 1)
            /\ \A w \in Writers : wpc[w] = "idle"))

\* Two writers of a readerless queue have wrapped the ring and returned from
\* every write, one of them after asking for the minimum.
C11_Witness ==
  /\ ~setup
  /\ nReaders = 0
  /\ nWriters = 2
  /\ next_sequence > CAPACITY
  /\ completed = 0..(next_sequence - 1)
  /\ \A w \in Writers : wpc[w] = "idle"
  /\ \E w \in Writers : cached_min[w] = SequenceMax

\* ------------------------------------------------------------------------
\* C12  The queue of one slot is a hand-off
\* ------------------------------------------------------------------------

\* C12: with CAPACITY = 1 and one reader, the write that claimed s >= 1
\* stores its stamp only after the reader's consumer sequence has reached
\* s - 1, so that stamp stores (in sequence order) and read completions
\* strictly alternate, starting with the stamp store of sequence 0.
C12_HandOff ==
  (CAPACITY = 1 /\ nReaders = 1) =>
    /\ \A s \in completed : s >= 1 => consumer_sequence[1] >= s - 1
    /\ completed = 0..(Cardinality(completed) - 1)
    /\ Len(consumed[1]) <= Cardinality(completed)
    /\ Cardinality(completed) <= Len(consumed[1]) + 1

\* Two writers have handed three items over the single slot, the reader has
\* taken two of them.
C12_Witness ==
  /\ CAPACITY = 1
  /\ nReaders = 1
  /\ nWriters = 2
  /\ completed = 0..2
  /\ consumer_sequence[1] = 1

\* ------------------------------------------------------------------------
\* C13  A writer suspended inside write()
\* ------------------------------------------------------------------------

\* Writer 1 is suspended for ever right after the fetch_add of its one
\* write call; every other endpoint thread keeps running.
NextStalledWriter ==
  \/ create_reader
  \/ create_writer
  \/ end_setup
  \/ claim_sequence(1)
  \/ \E w \in WriterIds \ {1} : WriterStep(w)
  \/ \E r \in ReaderIds : ReaderStep(r)

StalledWriterSpec ==
  /\ Init
  /\ [][NextStalledWriter]_vars
  /\ \A w \in WriterIds \ {1} : WF_vars(WriterStep(w))
  /\ \A r \in ReaderIds : WF_vars(ReaderStep(r))

\* C13 as stated: while a writer is between its fetch_add and its stamp
\* store, some other thread is not spinning without hope (an idle writer
\* counts as able to go on).
C13_AsStated ==
  \A w \in Writers :
    (Running /\ nWriters >= 2 /\ InWrite(w)) =>
      \/ \E v \in Writers \ {w} : ~WriterBlocked(v)
      \/ \E r \in Readers : ~ReaderBlocked(r)

\* C13: with at least one reader, a writer suspended between the fetch_add
\* that claimed s and its stamp store lets the other threads' calls return
\* only below s: no reader gets past s - 1 and no write that claimed
\* s + CAPACITY or more returns; the reads of the sequences below s and the
\* writes that claimed the other sequences below s + CAPACITY all return.
C13_StalledWriter ==
  /\ [](nReaders >= 1 =>
          \A w \in Writers :
            InWrite(w) =>
              /\ \A r \in Readers : consumer_sequence[r] < claimed_sequence[w]
              /\ \A s \in completed : s < claimed_sequence[w] + CAPACITY)
  /\ ((Running /\ nWriters >= 2 /\ InWrite(1))
        ~> (/\ \A r \in Readers :
                 consumer_sequence[r] = claimed_sequence[1] - 1
            /\ completed =
                 (0..(Min(MaxSeq, claimed_sequence[1] + CAPACITY) - 1))
                   \ {claimed_sequence[1]}))

\* Writer 1 is suspended with sequence 0; the other writer has written
\* sequence 1 and spins for sequence 2, the readers spin for sequence 0.
C13_Witness ==
  /\ Running
  /\ nWriters = 2
  /\ InWrite(1)
  /\ claimed_sequence[1] = 0
  /\ completed = {1}
  /\ WriterBlocked(2)
  /\ \A r \in Readers : ReaderBlocked(r)

\* ------------------------------------------------------------------------
\* C14  Order of the stamp stores
\* ------------------------------------------------------------------------

\* C14 as stated: for claimed sequences s < t the stamp of s is stored
\* before the stamp of t, so the stamped sequences are always a prefix of
\* the claimed ones.
C14_AsStated ==
  \A t \in completed : \A s \in 0..(t - 1) : s \in completed

\* C14: with at least one reader, for claimed sequences s < t that are
\* CAPACITY or more apart (in particular two sequences of one slot) the
\* stamp of s is stored before the stamp of t; the stamps of sequences less
\* than CAPACITY apart are stored in either order.
C14_PublicationOrder ==
  nReaders >= 1 =>
    \A t \in completed : \A s \in 0..(t - CAPACITY) : s \in completed

\* A later sequence of the next lap is stamped while its predecessor, claimed
\* by another writer, is not.
C14_Witness ==
  /\ nReaders >= 1
  /\ \E t \in completed :
       /\ t >= CAPACITY
       /\ (t - 1) \notin completed
       /\ (t - CAPACITY) \in completed

\* ------------------------------------------------------------------------
\* C15  Per-writer order with several writers
\* ------------------------------------------------------------------------

\* C15: with tagged items, the sequence a writer's call has claimed is
\* larger than the sequences of all its earlier items, so a writer's later
\* item always has the larger sequence (claim_log is indexed by sequence,
\* from 1); every reader has received
\* the items in sequence order without a gap or a repetition, and so the
\* items of any one writer reach every reader in the order that writer
\* wrote them.
C15_PerWriterOrder ==
  /\ \A w \in Writers :
       InWrite(w) =>
         /\ claim_log[claimed_sequence[w] + 1] = value[w]
         /\ value[w] = Tag(w, writes_of(w) - 1)
         /\ \A k \in DOMAIN claim_log :
              writer_of(claim_log[k]) = w => k - 1 <= claimed_sequence[w]
  /\ \A p, q \in DOMAIN claim_log :
       (p < q /\ writer_of(claim_log[p]) = writer_of(claim_log[q]))
         => item_of(claim_log[p]) < item_of(claim_log[q])
  /\ \A r \in Readers :
       /\ Len(received[r]) <= Len(claim_log)
       /\ received[r] = SubSeq(claim_log, 1, Len(received[r]))
       /\ \A p, q \in DOMAIN received[r] :
            p < q =>
              /\ received[r][p] # received[r][q]
              /\ writer_of(received[r][p]) = writer_of(received[r][q])
                   => item_of(received[r][p]) < item_of(received[r][q])

\* A reader has received items of two writers around a whole lap of the
\* ring, among them two items of one writer with an item of the other
\* writer in between.
C15_Witness ==
  /\ workload = "tagged"
  /\ nWriters = 2
  /\ \E r \in Readers :
       /\ Len(received[r]) > CAPACITY
       /\ \E p, q \in DOMAIN received[r] :
            /\ p + 1 < q
            /\ writer_of(received[r][p]) = writer_of(received[r][q])
            /\ writer_of(received[r][p + 1]) # writer_of(received[r][p])

\* ------------------------------------------------------------------------
\* C16  Reader spread
\* ------------------------------------------------------------------------

\* C16: the consumer sequences of any two readers are never more than
\* CAPACITY apart.
C16_ReaderSpread ==
  \A a, b \in Readers :
    consumer_sequence[a] - consumer_sequence[b] <= CAPACITY

\* One reader is a whole ring ahead of another that has read nothing.
C16_Witness ==
  \E a, b \in Readers :
    /\ consumer_sequence[b] = INITIAL_SEQUENCE
    /\ consumer_sequence[a] - consumer_sequence[b] = CAPACITY

\* ------------------------------------------------------------------------
\* C17  A writer that is created and never driven
\* ------------------------------------------------------------------------

\* The writer created last never calls write(); every other endpoint is
\* driven by a thread of its own.
ActiveWriterStep(w) == w < nWriters /\ WriterStep(w)

NextIdleWriter ==
  \/ create_reader
  \/ create_writer
  \/ end_setup
  \/ \E w \in WriterIds : ActiveWriterStep(w)
  \/ \E r \in ReaderIds : ReaderStep(r)

IdleWriterSpec ==
  /\ Init
  /\ [][NextIdleWriter]_vars
  /\ \A w \in WriterIds : WF_vars(ActiveWriterStep(w))
  /\ \A r \in ReaderIds : WF_vars(ReaderStep(r))

\* A thread other than the idle writer is inside a call it can complete,
\* or can start one.
OthersCanProgress ==
  \/ \E w \in Writers :
       w < nWriters /\ ~WriterFinished(w) /\ ~WriterBlocked(w)
  \/ \E r \in Readers : ~ReaderFinished(r) /\ ~ReaderBlocked(r)

\* The other threads have completed the whole workload.
OthersFinished ==
  /\ next_sequence = MaxSeq
  /\ completed = 0..(MaxSeq - 1)
  /\ \A w \in Writers : wpc[w] = "idle"
  /\ \A r \in Readers : rpc[r] = "idle" /\ consumer_sequence[r] = MaxSeq - 1

allQueueVars == <<capacity, workload, setup, nReaders, nWriters, queueVars,
                  writerVars, readerVars>>

\* The template arguments DIVISOR / CAPACITY looked at: the powers of two
\* of mod_power_of_two_tests and beyond, up to the largest an int holds.
DivisorExponents == {0, 1, 2, 3, 4, 5, 10, 16, 30}

Divisors == {2^k : k \in DivisorExponents}

\* The non-negative 64-bit sequences looked at: every combination of limbs
\* that are all zeros, small, around the sign bit, or all ones.
LimbSamples == {0, 1, 5, LimbBase \div 2 - 1, LimbBase \div 2, LimbBase - 1}

SequenceSamples ==
  {word \in [Limbs -> LimbSamples] : word[4] < LimbBase \div 2}

\* The arguments of ceil_to_power_of_two looked at: 0, the largest value,
\* and every power of two with its two neighbours.
CeilSamples ==
  {ZeroWord, MaxWord}
    \cup {PowerWord(k) : k \in 0..63}
    \cup {[PowerWord(k) EXCEPT ![1] = @ + 1] : k \in 1..63}
    \cup {[i \in Limbs |-> IF i < (k \div 16) + 1 THEN LimbBase - 1
                          ELSE IF i = (k \div 16) + 1 THEN 2^(k % 16) - 1
                          ELSE 0] : k \in 1..63}

\* A caller is about to call one of the functions with one argument.
BitInit ==
  /\ capacity = 1
  /\ workload = "numbered"
  /\ QueueInit
  /\ NoLqCall
  /\ \/ \E D \in Divisors, sequence \in SequenceSamples :
          bit = BitCall("index_from_sequence", D, sequence)
     \/ \E original \in CeilSamples :
          bit = BitCall("ceil_to_power_of_two", 1, original)

\* index_from_sequence(sequence) of a queue of CAPACITY bit.divisor returns.
call_index_from_sequence ==
  /\ bit.call = "index_from_sequence"
  /\ ~bit.returned
  /\ bit' = [bit EXCEPT
               !.returned = TRUE,
               !.result = index_from_sequence_wide(bit.divisor, bit.arg)]
  /\ UNCHANGED <<allQueueVars, lq>>

\* MAX_POWER = max - (max >> 1), the high bit alone.
MAX_POWER == PowerWord(63)

\* 1 << c in 32-bit int arithmetic for a shift count below the width: the
\* bit pattern with bit c alone, which for c = 31 is the most negative int.
shift_left_one_in_int(c) == IF c < 31 THEN 2^c ELSE 0 - 2^30 - 2^30

\* The values "1 << current_bit" can have.  The literal 1 is an int, so the
\* shift is made in int; a count of 32 or more is undefined and may give
\* the shift by the count modulo 32 or any other pattern (all ones here).
shift_left_one(current_bit) ==
  IF current_bit <= 31
  THEN {shift_left_one_in_int(current_bit)}
  ELSE {shift_left_one_in_int(current_bit % 32), 0 - 1}

\* internal::ceil_to_power_of_two(original, current_bit): the set of values
\* the call can return.
RECURSIVE ceil_to_power_of_two(_, _)
ceil_to_power_of_two(original, current_bit) ==
  IF WordLess(MAX_POWER, original)
  THEN {MAX_POWER}
  ELSE UNION {LET current_power == word_of_int(p)
              IN IF \/ ~WordLess(current_power, original)
                    \/ WordOfNat(current_bit) = MAX_POWER
                 THEN {current_power}
                 ELSE ceil_to_power_of_two(original, current_bit + 1)
              : p \in shift_left_one(current_bit)}

\* ceil_to_power_of_two(original) returns.
call_ceil_to_power_of_two ==
  /\ bit.call = "ceil_to_power_of_two"
  /\ ~bit.returned
  /\ \E result \in ceil_to_power_of_two(bit.arg, 0) :
       bit' = [bit EXCEPT !.returned = TRUE, !.result = result]
  /\ UNCHANGED <<allQueueVars, lq>>

BitNext ==
  \/ call_index_from_sequence
  \/ call_ceil_to_power_of_two

BitUtilsSpec == BitInit /\ [][BitNext]_vars

\* ------------------------------------------------------------------------
\* C18  The slot index is the sequence modulo the capacity
\* ------------------------------------------------------------------------

\* (x * 2^16) mod D for 0 <= x < D <= 2^30, with x split at bit 14 so that
\* no product leaves the range of the model's numbers.
TimesLimbBaseMod(x, D) ==
  LET high == ((2^30 % D) * (x \div 2^14)) % D
      low == ((x % 2^14) * LimbBase) % D
  IN (high + low) % D

\* The arithmetic remainder of a 64-bit value divided by D <= 2^30, limb by
\* limb from the most significant.
ModWord(word, D) ==
  LET r4 == word[4] % D
      r3 == (TimesLimbBaseMod(r4, D) + word[3]) % D
      r2 == (TimesLimbBaseMod(r3, D) + word[2]) % D
  IN (TimesLimbBaseMod(r2, D) + word[1]) % D

\* C18: for every power of two D that an int holds and every non-negative
\* 64-bit sequence s, index_from_sequence(s) of a queue of CAPACITY D is
\* s mod D, also when s does not fit the int parameter of mod_power_of_two;
\* and for a non-negative int x, mod_power_of_two<D>(x) is x mod D.
C18_IndexIsModulo ==
  (bit.call = "index_from_sequence" /\ bit.returned) =>
    /\ bit.result = WordOfNat(ModWord(bit.arg, bit.divisor))
    /\ FitsInt(bit.arg) =>
         mod_power_of_two(bit.divisor, NatOfWord(bit.arg))
           = NatOfWord(bit.arg) % bit.divisor

\* The index of a sequence beyond the int range whose conversion to int is
\* negative has been computed for the largest capacity, and is not zero.
C18_Witness ==
  /\ bit.call = "index_from_sequence"
  /\ bit.returned
  /\ bit.divisor = 2^30
  /\ bit.arg[4] > 0
  /\ int_of_word(bit.arg) < 0
  /\ bit.result # ZeroWord

\* ------------------------------------------------------------------------
\* C19  ceil_to_power_of_two
\* ------------------------------------------------------------------------

\* The value is a power of two.
IsPowerOfTwoWord(word) == \E k \in 0..63 : word = PowerWord(k)

\* The smallest power of two that is not below n, or the largest power of
\* two when there is none.
SmallestPowerOfTwoFrom(n) ==
  IF WordLess(MAX_POWER, n)
  THEN MAX_POWER
  ELSE PowerWord(CHOOSE k \in 0..63 :
                   /\ ~WordLess(PowerWord(k), n)
                   /\ \A j \in 0..(k - 1) : WordLess(PowerWord(j), n))

\* C19: ceil_to_power_of_two(n) returns the smallest power of two >= n (1
\* for n = 0), the largest power of two for every n above it, and always a
\* power of two.
C19_CeilToPowerOfTwo ==
  (bit.call = "ceil_to_power_of_two" /\ bit.returned) =>
    /\ IsPowerOfTwoWord(bit.result)
    /\ bit.result = SmallestPowerOfTwoFrom(bit.arg)

\* What the tests cover: up to 2^30 and above the largest power of two the
\* function does return what C19 says.
C19_SmallOrSaturated ==
  (/\ bit.call = "ceil_to_power_of_two"
   /\ bit.returned
   /\ \/ ~WordLess(PowerWord(30), bit.arg)
      \/ WordLess(MAX_POWER, bit.arg)) =>
    bit.result = SmallestPowerOfTwoFrom(bit.arg)

\* Everywhere between, the function returns the sign-extended most
\* negative int.
C19_Between ==
  (/\ bit.call = "ceil_to_power_of_two"
   /\ bit.returned
   /\ WordLess(PowerWord(30), bit.arg)
   /\ ~WordLess(MAX_POWER, bit.arg)) =>
    bit.result = word_of_int(shift_left_one_in_int(31))

\* ------------------------------------------------------------------------
\* The earlier queue: disruptor_queue<T, SIZE> with _producer_sequence and
\* _available_sequence
\* ------------------------------------------------------------------------

\* The values TestThatItWorks writes, in order.
TestValues == <<10, 11, 12, 0 - 1>>

\* What an object that was never initialised can hold: the reader's
\* _consumer_sequence (its constructor initialises _queue only) and a slot
\* of _buffer that was never written.
UninitSequences == {0 - 1, 0, 1}

UninitValues == {0, 7}

\* CAPACITY = internal::ceil_to_power_of_two(SIZE)
lq_CAPACITY ==
  NatOfWord(CHOOSE c \in ceil_to_power_of_two(WordOfNat(lq.size), 0) : TRUE)

lq_index_from_sequence(sequence) == mod_power_of_two(lq_CAPACITY, sequence)

\* wait_for_no_wrap: wrap_point = claimed_sequence - capacity()
lq_wrap_point(claimed) == claimed - lq_CAPACITY

\* get_min_consumer_sequence() over the one reader of _readers.
lq_get_min_consumer_sequence == Min(SequenceMax, lq.consumer_sequence)

LqWriters == 1..lq.nWriters

\* TestThatItWorks on disruptor_queue<int, 100> with one writer, or threads
\* of their own for the endpoints of a queue of SIZE 1 or 100.
LqInit ==
  /\ capacity = 1
  /\ workload = "numbered"
  /\ QueueInit
  /\ NoBitCall
  /\ \E uninitialised \in UninitSequences :
       \/ lq = LqConstructed("test", 100, 1, uninitialised)
       \/ \E size \in {1, 100}, writers \in LqWriterIds :
            lq = LqConstructed("threads", size, writers, uninitialised)

\* writer::write up to the first test of the loop of wait_for_no_wrap: the
\* fetch_add on _producer_sequence.  The test calls write only after the
\* read that checked the previous value.
lq_write(w) ==
  /\ w \in LqWriters
  /\ lq.wpc[w] = "idle"
  /\ Len(lq.written) < Len(TestValues)
  /\ lq.driver = "test" =>
       lq.rpc = "idle" /\ Len(lq.read) = Len(lq.written)
  /\ LET claimed == lq.producer_sequence
         argument == TestValues[Len(lq.written) + 1]
     IN lq' = [lq EXCEPT
                 !.producer_sequence = claimed + 1,
                 !.claimed_sequence[w] = claimed,
                 !.value[w] = argument,
                 !.written = Append(lq.written, argument),
                 !.wpc[w] =
                   IF lq_wrap_point(claimed) > lq.min_consumer_sequence[w]
                   THEN "wrap" ELSE "store"]
  /\ UNCHANGED <<allQueueVars, bit>>

\* One iteration of the loop of wait_for_no_wrap.
lq_wait_for_no_wrap(w) ==
  /\ lq.wpc[w] = "wrap"
  /\ lq' = [lq EXCEPT
              !.min_consumer_sequence[w] = lq_get_min_consumer_sequence,
              !.wpc[w] =
                IF lq_wrap_point(lq.claimed_sequence[w])
                     > lq_get_min_consumer_sequence
                THEN "wrap" ELSE "store"]
  /\ UNCHANGED <<allQueueVars, bit>>

\* _queue._buffer[write_index] = std::move(value)
lq_store(w) ==
  /\ lq.wpc[w] = "store"
  /\ LET write_index == lq_index_from_sequence(lq.claimed_sequence[w])
     IN lq' = [lq EXCEPT
                 !.buffer =
                   [i \in DOMAIN lq.buffer \cup {write_index} |->
                      IF i = write_index THEN lq.value[w] ELSE lq.buffer[i]],
                 !.wpc[w] = "publish"]
  /\ UNCHANGED <<allQueueVars, bit>>

\* The loop "while (_available_sequence.load() != previous_sequence)" ends,
\* _available_sequence.store(claimed_sequence), and write returns.
lq_publish(w) ==
  /\ lq.wpc[w] = "publish"
  /\ lq.available_sequence = lq.claimed_sequence[w] - 1
  /\ lq' = [lq EXCEPT
              !.available_sequence = lq.claimed_sequence[w],
              !.returned = lq.returned + 1,
              !.wpc[w] = "idle"]
  /\ UNCHANGED <<allQueueVars, bit>>

\* reader::read up to its loop: next_read_sequence is the consumer sequence
\* plus 1.  The test calls read only after the write has returned.
lq_read_begin ==
  /\ lq.rpc = "idle"
  /\ Len(lq.read) < Len(TestValues)
  /\ lq.driver = "test" =>
       /\ \A w \in LqWriters : lq.wpc[w] = "idle"
       /\ lq.returned = Len(lq.read) + 1
  /\ lq' = [lq EXCEPT
              !.next_read_sequence = lq.consumer_sequence + 1,
              !.rpc = "wait"]
  /\ UNCHANGED <<allQueueVars, bit>>

\* The loop "while (next_read_sequence > _available_sequence.load())" ends
\* and the slot is copied.  A slot never written holds anything; a slot a
\* writer is storing to at this moment gives the old or the new value.
lq_read_load ==
  /\ lq.rpc = "wait"
  /\ ~(lq.next_read_sequence > lq.available_sequence)
  /\ LET read_index == lq_index_from_sequence(lq.next_read_sequence)
         storing == {w \in LqWriters :
                       /\ lq.wpc[w] = "store"
                       /\ lq_index_from_sequence(lq.claimed_sequence[w])
                            = read_index}
         slot == IF read_index \in DOMAIN lq.buffer
                 THEN {lq.buffer[read_index]} ELSE UninitValues
     IN \E loaded \in slot \cup {lq.value[w] : w \in storing} :
          lq' = [lq EXCEPT !.read_value = loaded, !.rpc = "update"]
  /\ UNCHANGED <<allQueueVars, bit>>

\* _consumer_sequence.store(next_read_sequence); return value
lq_read_return ==
  /\ lq.rpc = "update"
  /\ lq' = [lq EXCEPT
              !.consumer_sequence = lq.next_read_sequence,
              !.read = Append(lq.read, lq.read_value),
              !.rpc = "idle"]
  /\ UNCHANGED <<allQueueVars, bit>>

LqNext ==
  \/ \E w \in LqWriterIds :
       \/ lq_write(w)
       \/ lq_wait_for_no_wrap(w)
       \/ lq_store(w)
       \/ lq_publish(w)
  \/ lq_read_begin
  \/ lq_read_load
  \/ lq_read_return

LqSpec == LqInit /\ [][LqNext]_vars

\* ------------------------------------------------------------------------
\* C20  TestThatItWorks on the earlier queue
\* ------------------------------------------------------------------------

\* C20: in TestThatItWorks every write call returns (the writer, alone in
\* its thread with nobody else to change _available_sequence, is never in
\* a loop whose condition holds) and the read calls return the values
\* written, in order.
C20_TestThatItWorks ==
  lq.driver = "test" =>
    /\ lq.wpc[1] = "publish" =>
         lq.available_sequence = lq.claimed_sequence[1] - 1
    /\ lq.wpc[1] = "wrap" =>
         lq_wrap_point(lq.claimed_sequence[1]) <= lq_get_min_consumer_sequence
    /\ lq.rpc = "wait" => lq.next_read_sequence <= lq.available_sequence
    /\ \A i \in DOMAIN lq.read : lq.read[i] = TestValues[i]

\* ------------------------------------------------------------------------
\* C21  Claim counting
\* ------------------------------------------------------------------------

\* The sequences claimed so far: those of the write calls that returned and
\* those held by the write calls in progress.
ClaimedSequences ==
  completed \cup {claimed_sequence[w] : w \in {x \in Writers : InWrite(x)}}

\* C21: _next_sequence starts at 0; in every reachable state it equals the
\* number of sequences claimed so far, which are exactly 0.._next_sequence-1
\* (so the first one is 0), and no two write calls hold or held the same
\* sequence; a step changes _next_sequence only by adding one, and it does
\* so exactly when a write call starts, which obtains the old value.
C21_ClaimCounting ==
  /\ next_sequence = 0
  /\ [](/\ ClaimedSequences = 0..(next_sequence - 1)
        /\ Cardinality(ClaimedSequences) = next_sequence
        /\ Len(claim_log) = next_sequence
        /\ \A w1, w2 \in Writers :
             (w1 # w2 /\ InWrite(w1) /\ InWrite(w2)) =>
               claimed_sequence[w1] # claimed_sequence[w2]
        /\ \A w \in Writers :
             InWrite(w) => claimed_sequence[w] \notin completed)
  /\ [][/\ next_sequence' # next_sequence =>
             /\ next_sequence' = next_sequence + 1
             /\ \E w \in Writers :
                  /\ ~InWrite(w)
                  /\ InWrite(w)'
                  /\ claimed_sequence'[w] = next_sequence
        /\ \A w \in WriterIds :
             (~InWrite(w) /\ InWrite(w)') =>
               /\ next_sequence' = next_sequence + 1
               /\ claimed_sequence'[w] = next_sequence]_vars

\* Two writers are inside write() at once and every sequence of the
\* workload has been claimed.
C21_Witness ==
  /\ nWriters = 2
  /\ InWrite(1)
  /\ InWrite(2)
  /\ next_sequence = MaxSeq
  /\ Cardinality(ClaimedSequences) = MaxSeq

\* ------------------------------------------------------------------------
\* C22  The writer's cache never over-reports
\* ------------------------------------------------------------------------

\* C22: with at least one reader, every writer's
\* _cached_min_consumer_sequence is <= the minimum of the readers'
\* _consumer_sequence at this instant, although the scan loads the readers
\* one at a time while they advance.
C22_CacheNeverOverReports ==
  nReaders >= 1 =>
    \A w \in Writers : cached_min[w] <= MinConsumer

\* Two readers; a writer whose cache was refreshed by an earlier scan is in
\* the middle of another scan, and the first reader has advanced since the
\* scan loaded it.
C22_Witness ==
  /\ nReaders = 2
  /\ \E w \in Writers :
       /\ cached_min[w] >= 0
       /\ wpc[w] = "scan"
       /\ scan_index[w] = 2
       /\ min_sequence[w] >= 0
       /\ min_sequence[w] < consumer_sequence[1]
       /\ cached_min[w] < MinConsumer

\* ------------------------------------------------------------------------
\* C23  The writer's cache is monotone
\* ------------------------------------------------------------------------

\* C23: no step lowers a writer's _cached_min_consumer_sequence: the
\* assignment in wait_for_no_wrap stores a value >= the one it replaces,
\* however the loads of the scan interleave with the readers' stores.
C23_CacheMonotone ==
  [][\A w \in WriterIds : cached_min'[w] >= cached_min[w]]_vars

\* One writer, two readers, a ring of one slot: the writer's scans for
\* sequence 1 and for sequence 2 have raised its cache from
\* INITIAL_SEQUENCE to 0 and then to 1, and the readers stand at different
\* sequences.
C23_Witness ==
  /\ nWriters = 1
  /\ nReaders = 2
  /\ CAPACITY = 1
  /\ cached_min[1] = 1
  /\ consumer_sequence[1] # consumer_sequence[2]

\* ------------------------------------------------------------------------
\* C24  The old stamp at the payload store
\* ------------------------------------------------------------------------

\* The stamp of the slot of the sequence writer w holds.
stamp_of_claimed(w) ==
  slot_sequences[index_from_sequence(claimed_sequence[w])]

\* C24 as stated: with at least one reader, while a writer that claimed s
\* is between the return of wait_for_no_wrap() and its stamp store, the
\* stamp of slot s mod CAPACITY is <= s - CAPACITY: it is s - CAPACITY when
\* s >= CAPACITY and -1 when s < CAPACITY.
C24_AsStated ==
  nReaders >= 1 =>
    \A w \in Writers :
      PastWait(w) =>
        /\ stamp_of_claimed(w) <= claimed_sequence[w] - CAPACITY
        /\ stamp_of_claimed(w) =
             IF claimed_sequence[w] >= CAPACITY
             THEN claimed_sequence[w] - CAPACITY
             ELSE INITIAL_SEQUENCE

\* C24 amended: with at least one reader, while a writer that claimed s is
\* between the return of wait_for_no_wrap() and its stamp store, the stamp
\* of slot s mod CAPACITY is s - CAPACITY when s >= CAPACITY and
\* INITIAL_SEQUENCE when s < CAPACITY; either way it is below s and is the
\* stamp of no sequence a reader has yet to read.
C24_OldStamp ==
  nReaders >= 1 =>
    \A w \in Writers :
      PastWait(w) =>
        /\ stamp_of_claimed(w) =
             IF claimed_sequence[w] >= CAPACITY
             THEN claimed_sequence[w] - CAPACITY
             ELSE INITIAL_SEQUENCE
        /\ stamp_of_claimed(w) < claimed_sequence[w]
        /\ \A r \in Readers : stamp_of_claimed(w) <= consumer_sequence[r]

\* A ring of two slots with a reader: one writer is at the payload store of
\* a second-lap sequence and another at the payload store of a first-lap
\* sequence whose slot was never stamped.
C24_Witness ==
  /\ nReaders >= 1
  /\ CAPACITY = 2
  /\ \E w1, w2 \in Writers :
       /\ wpc[w1] = "store"
       /\ claimed_sequence[w1] >= CAPACITY
       /\ stamp_of_claimed(w1) = claimed_sequence[w1] - CAPACITY
       /\ wpc[w2] = "store"
       /\ claimed_sequence[w2] < CAPACITY
       /\ stamp_of_claimed(w2) = INITIAL_SEQUENCE

\* ------------------------------------------------------------------------
\* C25  A reader never meets a stamp from the future
\* ------------------------------------------------------------------------

\* The stamp a reader in wait_for_data() loads: that of the slot of
\* next = _consumer_sequence + 1.
stamp_awaited(r) ==
  slot_sequences[index_from_sequence(
                   get_next_read_sequence(consumer_sequence[r]))]

\* C25: while a reader with _consumer_sequence c is in wait_for_data() for
\* next = c + 1 (or between two read calls), the stamp of slot
\* next mod CAPACITY is <= next: it is INITIAL_SEQUENCE, next - CAPACITY or
\* next, never the stamp of a later lap.
C25_NoFutureStamp ==
  \A r \in Readers :
    rpc[r] = "idle" =>
      LET next == get_next_read_sequence(consumer_sequence[r])
      IN /\ stamp_awaited(r) <= next
         /\ stamp_awaited(r) \in {INITIAL_SEQUENCE, next - CAPACITY, next}

\* A reader has not yet read the published sequence next while a writer
\* that claimed next + CAPACITY, the next sequence of the same slot, is
\* scanning the readers.
C25_Witness ==
  \E r \in Readers : \E w \in Writers :
    /\ rpc[r] = "idle"
    /\ stamp_awaited(r) = get_next_read_sequence(consumer_sequence[r])
    /\ wpc[w] = "scan"
    /\ claimed_sequence[w]
         = get_next_read_sequence(consumer_sequence[r]) + CAPACITY

\* ------------------------------------------------------------------------
\* The revision whose read() moves the payload out of the slot
\* (src/src/disruptor_queue.hpp lines 1-253).  It differs from the present
\* revision only in read(): value_type value =
\* std::move(_queue._buffer[read_index]).  For a payload type with a move
\* constructor that is two accesses of the slot: the constructor takes the
\* contents of the slot, then it leaves the slot in the moved-from state.
\* ------------------------------------------------------------------------

\* The moved-from state of the payload type: that of a default-constructed
\* payload (an empty string, a null pointer), which no write call hands in.
moved_from_state == DefaultValue

\* read(): the move constructor takes the contents of the slot.
move_payload_take(r) ==
  /\ rpc[r] = "load"
  /\ LET read_index == index_from_sequence(next_read_sequence[r])
     IN read_value' = [read_value EXCEPT ![r] = buffer[read_index]]
  /\ rpc' = [rpc EXCEPT ![r] = "reset"]
  /\ UNCHANGED <<consumer_sequence, next_read_sequence, received, consumed,
                 queueVars, setupVars, writerVars>>

\* read(): the move constructor leaves the slot in the moved-from state.
move_payload_reset(r) ==
  /\ rpc[r] = "reset"
  /\ LET read_index == index_from_sequence(next_read_sequence[r])
     IN buffer' = [buffer EXCEPT ![read_index] = moved_from_state]
  /\ rpc' = [rpc EXCEPT ![r] = "update"]
  /\ UNCHANGED <<consumer_sequence, next_read_sequence, read_value, received,
                 consumed, slot_sequences, next_sequence, setupVars,
                 writerVars>>

MovingReaderStep(r) ==
  \/ wait_for_data(r)
  \/ move_payload_take(r)
  \/ move_payload_reset(r)
  \/ update_consumer_sequence(r)

NextMoveOut ==
  \/ create_reader
  \/ create_writer
  \/ end_setup
  \/ \E w \in WriterIds : WriterStep(w)
  \/ \E r \in ReaderIds : MovingReaderStep(r)

MoveOutSpec == Init /\ [][NextMoveOut]_vars

\* Reader r is inside the move: it has passed wait_for_data() and has not
\* yet left the slot in the moved-from state.
InMove(r) == rpc[r] \in {"load", "reset"}

\* ------------------------------------------------------------------------
\* C26  Broadcast in the revision whose read() moves the payload out
\* ------------------------------------------------------------------------

\* C26: with two readers, every read call of either reader returns the
\* payload the writer stored for the sequence it consumed (so the second
\* reader of a sequence still receives it), and no reader is inside its
\* move from a slot while the other reader is inside its move from the
\* same slot.
C26_MoveOutBroadcast ==
  nReaders = 2 =>
    /\ \A r \in Readers :
         \A k \in 1..Len(received[r]) :
           /\ k <= Len(claim_log)
           /\ received[r][k] = claim_log[k]
    /\ \A r1, r2 \in Readers :
         (r1 # r2 /\ InMove(r1) /\ InMove(r2)) =>
           index_from_sequence(next_read_sequence[r1])
             # index_from_sequence(next_read_sequence[r2])

\* ------------------------------------------------------------------------
\* C27  Per-slot stamps only grow, lap by lap
\* ------------------------------------------------------------------------

\* C27: with at least one reader, every stamp store (the step that ends a
\* write call) is to the slot i of the sequence s the call claimed, stores
\* s, and replaces INITIAL_SEQUENCE by i or a stamp v by v + CAPACITY; no
\* other step changes a stamp.  So a slot's stamp never decreases and
\* never skips a lap.
C27_StampsGrowByLaps ==
  [][nReaders >= 1 =>
       /\ \A w \in Writers :
            (wpc[w] = "commit" /\ wpc'[w] # "commit") =>
              LET i == index_from_sequence(claimed_sequence[w])
              IN /\ slot_sequences'[i] = claimed_sequence[w]
                 /\ slot_sequences'[i] # slot_sequences[i]
       /\ \A i \in Slots :
            slot_sequences'[i] # slot_sequences[i] =>
              /\ slot_sequences'[i] =
                   IF slot_sequences[i] = INITIAL_SEQUENCE THEN i
                   ELSE slot_sequences[i] + CAPACITY
              /\ slot_sequences'[i] > slot_sequences[i]
              /\ \E w \in Writers : wpc[w] = "commit" /\ wpc'[w] = "idle"]_vars

\* Two writers, a reader and a ring of one slot whose stamp has been
\* replaced three times: INITIAL_SEQUENCE, 0, 1, 2.
C27_Witness ==
  /\ nReaders >= 1
  /\ nWriters = 2
  /\ CAPACITY = 1
  /\ slot_sequences[0] = 2

\* ------------------------------------------------------------------------
\* C28  Bound on outstanding claims
\* ------------------------------------------------------------------------

\* The sequences whose stamp has been stored and that the slowest reader
\* has not consumed.
PublishedUnconsumed == {s \in completed : s > MinConsumer}

\* C28: with W writers and at least one reader, the number of sequences
\* claimed and not yet consumed by the slowest reader,
\* _next_sequence - (min _consumer_sequence + 1), is <= CAPACITY + W, and
\* at most CAPACITY sequences are stamped and not yet consumed by the
\* slowest reader.
C28_OutstandingClaims ==
  nReaders >= 1 =>
    /\ next_sequence - (MinConsumer + 1) <= CAPACITY + nWriters
    /\ Cardinality(PublishedUnconsumed) <= CAPACITY

\* Both bounds are met with equality with two writers: the ring is full of
\* unread sequences and each writer spins in wait_for_no_wrap() for one
\* more.
C28_Witness ==
  /\ nReaders >= 1
  /\ nWriters = 2
  /\ next_sequence - (MinConsumer + 1) = CAPACITY + nWriters
  /\ Cardinality(PublishedUnconsumed) = CAPACITY
  /\ \A w \in Writers : wpc[w] = "scan"

\* ------------------------------------------------------------------------
\* C29  Frame of the hot-path operations
\* ------------------------------------------------------------------------

\* This step is a step of reader r's read call: the reader's place in
\* read(), a local of the call or its _consumer_sequence changes.
StepOfRead(r) ==
  <<rpc[r], next_read_sequence[r], read_value[r], consumer_sequence[r]>>'
    # <<rpc[r], next_read_sequence[r], read_value[r], consumer_sequence[r]>>

\* This step is a step of writer w's write call.
StepOfWrite(w) ==
  <<wpc[w], claimed_sequence[w], value[w], scan_index[w], min_sequence[w],
    cached_min[w]>>'
    # <<wpc[w], claimed_sequence[w], value[w], scan_index[w],
        min_sequence[w], cached_min[w]>>

\* C29: a step of a read call leaves _next_sequence, every stamp, every
\* buffer slot, every writer's cache and every other reader's
\* _consumer_sequence unchanged; a step of a write call that claimed s
\* leaves every _consumer_sequence, every other writer's cache and every
\* buffer slot and stamp other than those of slot s mod CAPACITY
\* unchanged, and changes _next_sequence only when it claims;
\* _consumer_sequence and _next_sequence never decrease.
C29_Frame ==
  [][/\ \A r \in ReaderIds :
          StepOfRead(r) =>
            /\ next_sequence' = next_sequence
            /\ slot_sequences' = slot_sequences
            /\ buffer' = buffer
            /\ cached_min' = cached_min
            /\ \A q \in ReaderIds \ {r} :
                 consumer_sequence'[q] = consumer_sequence[q]
     /\ \A w \in WriterIds :
          StepOfWrite(w) =>
            LET s == IF wpc[w] = "idle" THEN claimed_sequence'[w]
                     ELSE claimed_sequence[w]
            IN /\ consumer_sequence' = consumer_sequence
               /\ \A v \in WriterIds \ {w} : cached_min'[v] = cached_min[v]
               /\ \A i \in Slots \ {index_from_sequence(s)} :
                    /\ buffer'[i] = buffer[i]
                    /\ slot_sequences'[i] = slot_sequences[i]
               /\ next_sequence' # next_sequence => wpc[w] = "idle"
     /\ \A r \in ReaderIds : consumer_sequence'[r] >= consumer_sequence[r]
     /\ next_sequence' >= next_sequence]_vars

\* Two readers and two writers on a ring of two slots: one reader has
\* completed two read calls and the other none, every sequence of the
\* workload has been claimed, a writer waits to begin the second lap, and
\* both slots still hold the payloads of the sequences they are stamped
\* with.
C29_Witness ==
  /\ nReaders = 2
  /\ nWriters = 2
  /\ CAPACITY = 2
  /\ \E r \in Readers : consumer_sequence[r] = 1
  /\ next_sequence = MaxSeq
  /\ \E w \in Writers : wpc[w] = "scan" /\ claimed_sequence[w] = 2
  /\ \A i \in Slots :
       /\ slot_sequences[i] = i
       /\ buffer[i] = claim_log[i + 1]
  /\ \E r \in Readers : consumer_sequence[r] = INITIAL_SEQUENCE

=============================================================================
